---- MODULE Spec2Model ----
(***************************************************************************)
(* Model of the analyzers of nest-dto-generator: src-resolver              *)
(* (extractClasses, filterControllerClasses and the path normalisation it  *)
(* calls) and expression-resolver (resolveToLiteral).  The analyzers are   *)
(* pure functions of a program snapshot: syntax trees are records tagged   *)
(* with the SyntaxKind the code tests, the type checker is a symbol table  *)
(* from identifier text to symbol.  The recursion of resolveVariable is    *)
(* also modelled frame by frame on a call stack, over snapshots whose      *)
(* declarations may refer to each other.                                   *)
(***************************************************************************)
EXTENDS Integers, Sequences, FiniteSets

(* sourceFiles: the source files of the program given to extractClasses;   *)
(* classes, result: argument and records of filterControllerClasses;       *)
(* expr, literal: argument and value of resolveToLiteral; pc, error: where *)
(* the call stands and the error it has thrown; snapshot, stack,           *)
(* returnValue: the declarations a call of resolveVariable reads, its      *)
(* frames on the call stack and the value it returns.                      *)
VARIABLES sourceFiles, classes, pc, result, error, expr, literal, snapshot, stack, returnValue

vars == <<sourceFiles, classes, pc, result, error, expr, literal, snapshot, stack, returnValue>>

(***************************************************************************)
(* Bounds of the explored inputs.                                          *)
(***************************************************************************)
MaxClasses == 3
MaxDecorators == 2
MaxElems == 2
MaxProps == 2
MaxStatements == 3
MaxFiles == 2
(* The frames the call stack of the engine holds before it overflows.      *)
StackLimit == 6

SeqsUpTo(S, n) == UNION {[1..k -> S] : k \in 0..n}

(***************************************************************************)
(* Syntax tree nodes (ts.Node), one constructor per SyntaxKind in use.     *)
(***************************************************************************)
StringLiteral(s) == [kind |-> "StringLiteral", text |-> s]
NoSubstitutionTemplateLiteral(s) == [kind |-> "NoSubstitutionTemplateLiteral", text |-> s]
(* The text of a numeric, big integer or regular expression literal is the *)
(* sequence of its characters, the functions applied to it read it         *)
(* character by character.                                                 *)
NumericLiteral(t) == [kind |-> "NumericLiteral", text |-> t]
BigIntLiteral(t) == [kind |-> "BigIntLiteral", text |-> t]
RegularExpressionLiteral(t) == [kind |-> "RegularExpressionLiteral", text |-> t]
TrueKeyword == [kind |-> "TrueKeyword"]
FalseKeyword == [kind |-> "FalseKeyword"]
PrefixUnaryExpression(op, e) == [kind |-> "PrefixUnaryExpression", operator |-> op, operand |-> e]
ComputedPropertyName(e) == [kind |-> "ComputedPropertyName", expression |-> e]
TemplateExpression(h, spans) == [kind |-> "TemplateExpression", head |-> h, templateSpans |-> spans]
TemplateSpan(e, t) == [kind |-> "TemplateSpan", expression |-> e, literal |-> t]
MethodDeclaration(n) == [kind |-> "MethodDeclaration", name |-> n]
Identifier(n) == [kind |-> "Identifier", text |-> n]
ParenthesizedExpression(e) == [kind |-> "ParenthesizedExpression", expression |-> e]
ArrayLiteralExpression(es) == [kind |-> "ArrayLiteralExpression", elements |-> es]
ObjectLiteralExpression(ps) == [kind |-> "ObjectLiteralExpression", properties |-> ps]
PropertyAssignment(n, e) == [kind |-> "PropertyAssignment", name |-> n, initializer |-> e]
ShorthandPropertyAssignment(n) == [kind |-> "ShorthandPropertyAssignment", name |-> n]
CallExpression(f, as) == [kind |-> "CallExpression", expression |-> f, arguments |-> as]
PropertyAccessExpression(e, n) == [kind |-> "PropertyAccessExpression", expression |-> e, name |-> n]
Decorator(e) == [kind |-> "Decorator", expression |-> e]
ClassDeclaration(n, ds) == [kind |-> "ClassDeclaration", name |-> n, decorators |-> ds]
VariableDeclaration(e) == [kind |-> "VariableDeclaration", hasInitializer |-> TRUE, initializer |-> e]
VariableDeclarationNoInit == [kind |-> "VariableDeclaration", hasInitializer |-> FALSE]
FunctionDeclaration == [kind |-> "FunctionDeclaration"]
(* export default class { }: a class declaration whose name is undefined.  *)
DefaultClassDeclaration(ds) == [kind |-> "ClassDeclaration", decorators |-> ds]
ClassExpression == [kind |-> "ClassExpression"]
VariableStatement(e) == [kind |-> "VariableStatement", declarations |-> <<VariableDeclaration(e)>>]
ModuleDeclaration(n, body) == [kind |-> "ModuleDeclaration", name |-> n, body |-> body]
Block(statements) == [kind |-> "Block", statements |-> statements]
ImportDeclaration == [kind |-> "ImportDeclaration"]
EndOfFileToken == [kind |-> "EndOfFileToken"]
SourceFile(fileName, statements) ==
  [kind |-> "SourceFile", fileName |-> fileName, statements |-> statements,
   endOfFileToken |-> EndOfFileToken]

isStringLiteral(node) == node.kind = "StringLiteral"
isIdentifier(node) == node.kind = "Identifier"
isArrayLiteralExpression(node) == node.kind = "ArrayLiteralExpression"
isObjectLiteralExpression(node) == node.kind = "ObjectLiteralExpression"
isCallExpression(node) == node.kind = "CallExpression"
isPropertyAssignment(node) == node.kind = "PropertyAssignment"
isVariableDeclaration(node) == node.kind = "VariableDeclaration"
isClassDeclaration(node) == node.kind = "ClassDeclaration"


(***************************************************************************)
(* The program snapshot: what the type checker knows about each identifier *)
(* text.  A name outside the table has no symbol.  An alias symbol (import *)
(* or re-export binding) names the symbol it is bound to; "" is a module   *)
(* that could not be resolved.  The declarations are those of the test     *)
(* fixtures, completed with one declaration per initializer shape that     *)
(* resolveVariable distinguishes.  No declaration refers to itself, nor    *)
(* through other declarations.                                             *)
(***************************************************************************)
VariableSymbol(e) == [flags |-> "Variable", declarations |-> <<VariableDeclaration(e)>>]
ImportSpecifier == [kind |-> "ImportSpecifier"]
AliasSymbol(n) == [flags |-> "Alias", target |-> n, declarations |-> <<ImportSpecifier>>]
unknownSymbol == [flags |-> "Unknown", declarations |-> <<>>]

SymbolTable ==
  [n \in {"API_PREFIX", "API_VERSION", "PATHS", "CONTROLLER_CONFIG", "INVALID_PREFIX",
          "IMPORTED_PREFIX", "REEXPORTED_PREFIX", "Controller", "DECLARED_ONLY",
          "someFunction", "NESTED_PATHS", "NO_PATH_CONFIG", "EMPTY_PREFIX",
          "TEMPLATE_PREFIX", "MIXED_PATHS", "EMPTY_PATHS", "EMPTY_PATH_CONFIG",
          "path", "DEEP_PATHS", "ARRAY_PATH_CONFIG"} |->
    CASE n = "API_PREFIX" -> VariableSymbol(StringLiteral("api"))
      [] n = "API_VERSION" -> VariableSymbol(StringLiteral("v3"))
      [] n = "PATHS" ->
           VariableSymbol(ArrayLiteralExpression(
             <<StringLiteral("users"), StringLiteral("profiles")>>))
      [] n = "CONTROLLER_CONFIG" ->
           VariableSymbol(ObjectLiteralExpression(
             <<PropertyAssignment(Identifier("host"), StringLiteral("example.com")),
               PropertyAssignment(Identifier("path"), StringLiteral("config-path"))>>))
      [] n = "INVALID_PREFIX" -> VariableSymbol(NumericLiteral(<<"1", "2", "3">>))
      [] n = "IMPORTED_PREFIX" -> AliasSymbol("API_PREFIX")
      [] n = "REEXPORTED_PREFIX" -> AliasSymbol("IMPORTED_PREFIX")
      [] n = "Controller" -> AliasSymbol("")
      [] n = "DECLARED_ONLY" ->
           [flags |-> "Variable", declarations |-> <<VariableDeclarationNoInit>>]
      [] n = "someFunction" ->
           [flags |-> "Function", declarations |-> <<FunctionDeclaration>>]
      [] n = "NESTED_PATHS" ->
           VariableSymbol(ArrayLiteralExpression(
             <<StringLiteral("root"), Identifier("PATHS"), Identifier("REEXPORTED_PREFIX")>>))
      [] n = "NO_PATH_CONFIG" ->
           VariableSymbol(ObjectLiteralExpression(
             <<PropertyAssignment(Identifier("host"), StringLiteral("example.com"))>>))
      [] n = "EMPTY_PREFIX" -> VariableSymbol(StringLiteral(""))
      [] n = "TEMPLATE_PREFIX" -> VariableSymbol(NoSubstitutionTemplateLiteral("api"))
      [] n = "MIXED_PATHS" ->
           VariableSymbol(ArrayLiteralExpression(
             <<NumericLiteral(<<"1">>), StringLiteral("v1")>>))
      [] n = "EMPTY_PATHS" -> VariableSymbol(ArrayLiteralExpression(<<>>))
      [] n = "EMPTY_PATH_CONFIG" ->
           VariableSymbol(ObjectLiteralExpression(
             <<PropertyAssignment(Identifier("path"), ArrayLiteralExpression(<<>>))>>))
      [] n = "path" -> VariableSymbol(NumericLiteral(<<"1", "2", "3">>))
      [] n = "DEEP_PATHS" ->
           VariableSymbol(ArrayLiteralExpression(
             <<Identifier("NESTED_PATHS"), StringLiteral("leaf")>>))
      [] n = "ARRAY_PATH_CONFIG" ->
           VariableSymbol(ObjectLiteralExpression(
             <<PropertyAssignment(Identifier("path"),
                 ArrayLiteralExpression(<<StringLiteral("v1"), Identifier("API_VERSION")>>))>>))]

hasSymbol(node) == node.text \in DOMAIN SymbolTable
getSymbolAtLocation(node) == SymbolTable[node.text]

(* typeChecker.getAliasedSymbol: follows every alias down to the original  *)
(* symbol, the unknown symbol when a module on the way is not resolved.    *)
RECURSIVE getAliasedSymbol(_)
getAliasedSymbol(symbol) ==
  IF symbol.flags # "Alias" THEN symbol
  ELSE IF symbol.target \notin DOMAIN SymbolTable THEN unknownSymbol
  ELSE getAliasedSymbol(SymbolTable[symbol.target])

(* Variant: the import binding itself is taken for the declaration.        *)
followAliasNotFollowed(symbol) == symbol

(* The symbol whose declarations resolveVariable reads.                     *)
followAlias(symbol) ==
  IF symbol.flags = "Alias" THEN getAliasedSymbol(symbol) ELSE symbol

(***************************************************************************)
(* Values and completions of the analyzer's functions.                     *)
(***************************************************************************)
StringValue(s) == [type |-> "string", value |-> s]
ArrayValue(xs) == [type |-> "array", value |-> xs]
ObjectValue(node) == [type |-> "object", value |-> node]
undefined == [type |-> "undefined"]

Return(path) == [kind |-> "return", value |-> path]
ReturnUndefined == [kind |-> "undefined"]
InvalidControllerDecoratorError(message) ==
  [kind |-> "throw", error |-> "InvalidControllerDecoratorError", message |-> message]

(***************************************************************************)
(* resolveVariable: the value of an identifier, through imports.           *)
(***************************************************************************)
RECURSIVE resolveVariable(_)
RECURSIVE resolveVariableElements(_)

(* Variant: an element referring to an array is not spread into the        *)
(* elements, the declaration is given up.                                  *)
pushResolvedStringOnly(collected, resolved) ==
  IF resolved.type = "string" THEN ArrayValue(Append(collected.value, resolved.value))
  ELSE undefined

(* One identifier element of an array initializer: its strings are pushed  *)
(* on the elements collected so far, anything else ends with undefined.    *)
pushResolved(collected, resolved) ==
  IF resolved.type = "string" THEN ArrayValue(Append(collected.value, resolved.value))
  ELSE IF resolved.type = "array" THEN ArrayValue(collected.value \o resolved.value)
  ELSE undefined

(* The loop over initializer.elements: loop[i] is the array collected after *)
(* i elements, or undefined once the loop has returned undefined.          *)
resolveVariableElements(elements) ==
  LET loop[i \in 0..Len(elements)] ==
        IF i = 0 THEN ArrayValue(<<>>)
        ELSE IF loop[i - 1].type = "undefined" THEN undefined
        ELSE IF isStringLiteral(elements[i])
          THEN ArrayValue(Append(loop[i - 1].value, elements[i].text))
        ELSE IF isIdentifier(elements[i])
          THEN pushResolved(loop[i - 1], resolveVariable(elements[i]))
        ELSE undefined
  IN loop[Len(elements)]

(* The value of a variable declaration's initializer.                      *)
resolveInitializer(initializer) ==
  IF isStringLiteral(initializer) THEN StringValue(initializer.text)
  ELSE IF isArrayLiteralExpression(initializer)
    THEN resolveVariableElements(initializer.elements)
  ELSE IF isObjectLiteralExpression(initializer) THEN ObjectValue(initializer)
  ELSE undefined

(* The value of the first declaration of a symbol.                         *)
resolveDeclarations(declarations) ==
  IF Len(declarations) = 0 THEN undefined
  ELSE IF ~isVariableDeclaration(declarations[1]) THEN undefined
  ELSE IF ~declarations[1].hasInitializer THEN undefined
  ELSE resolveInitializer(declarations[1].initializer)

resolveVariable(node) ==
  IF ~hasSymbol(node) THEN undefined
  ELSE resolveDeclarations(followAlias(getSymbolAtLocation(node)).declarations)

(***************************************************************************)
(* Path normalisation of the first argument of a Controller decorator.     *)
(***************************************************************************)
ElementError ==
  InvalidControllerDecoratorError(
    "Controller decorator array elements must be strings or string variables")

(* Variant: an element that does not resolve to strings is left out.       *)
pushResolvedPathOrSkip(paths, resolved) ==
  IF resolved.type = "string" THEN Return(Append(paths.value, resolved.value))
  ELSE IF resolved.type = "array" THEN Return(paths.value \o resolved.value)
  ELSE paths

(* Variant: of an array only the first string is pushed.                   *)
pushResolvedPathFirstOnly(paths, resolved) ==
  IF resolved.type = "string" THEN Return(Append(paths.value, resolved.value))
  ELSE IF resolved.type = "array"
    THEN Return(paths.value \o SubSeq(resolved.value, 1, 1))
  ELSE ElementError

(* One identifier element of a path array: its strings are pushed on the   *)
(* paths collected so far, anything else is an error.                      *)
pushResolvedPath(paths, resolved) ==
  IF resolved.type = "string" THEN Return(Append(paths.value, resolved.value))
  ELSE IF resolved.type = "array" THEN Return(paths.value \o resolved.value)
  ELSE ElementError

(* Variant: each string literal is put in front of the paths collected so  *)
(* far.                                                                    *)
pushElementInFront(paths, element) ==
  IF paths.kind = "throw" THEN paths
  ELSE IF isStringLiteral(element) THEN Return(<<element.text>> \o paths.value)
  ELSE IF isIdentifier(element) THEN pushResolvedPath(paths, resolveVariable(element))
  ELSE ElementError

(* Variant: an element that is not a string is left out, not reported.     *)
pushElementOrSkip(paths, element) ==
  IF paths.kind = "throw" THEN paths
  ELSE IF isStringLiteral(element) THEN Return(Append(paths.value, element.text))
  ELSE IF isIdentifier(element) THEN pushResolvedPathOrSkip(paths, resolveVariable(element))
  ELSE paths

(* One turn of the loop over the elements, after the paths collected so    *)
(* far or the error already thrown.                                        *)
pushElement(paths, element) ==
  IF paths.kind = "throw" THEN paths
  ELSE IF isStringLiteral(element) THEN Return(Append(paths.value, element.text))
  ELSE IF isIdentifier(element) THEN pushResolvedPath(paths, resolveVariable(element))
  ELSE ElementError

getPathFromArrayLoop(elements) ==
  LET loop[i \in 0..Len(elements)] ==
        IF i = 0 THEN Return(<<>>)
        ELSE pushElement(loop[i - 1], elements[i])
  IN loop[Len(elements)]

(* Variant: the empty array is not rejected.                               *)
getPathFromArrayAllowingEmpty(elements) == getPathFromArrayLoop(elements)

getPathFromArray(elements) ==
  IF Len(elements) = 0
    THEN InvalidControllerDecoratorError("Controller decorator path array cannot be empty")
  ELSE getPathFromArrayLoop(elements)

(* arg.properties.find(...): the index of the first property assignment    *)
(* whose name is the identifier path, 0 when there is none.                *)
isPathProperty(prop) ==
  /\ isPropertyAssignment(prop)
  /\ isIdentifier(prop.name)
  /\ prop.name.text = "path"

(* Variant: only the first property of the object is looked at.            *)
findPathPropertyFirstOnly(properties) ==
  IF Len(properties) > 0 /\ isPathProperty(properties[1]) THEN 1 ELSE 0

findPathProperty(properties) ==
  IF \E i \in 1..Len(properties) : isPathProperty(properties[i])
    THEN CHOOSE i \in 1..Len(properties) :
           /\ isPathProperty(properties[i])
           /\ \A j \in 1..(i - 1) : ~isPathProperty(properties[j])
  ELSE 0

PathPropertyError ==
  InvalidControllerDecoratorError(
    "Controller decorator path property must be a string, string array, or string variable")

(* Variant: an identifier resolving to an array is not accepted.           *)
getPathFromResolvedPropertyStringOnly(resolved) ==
  IF resolved.type = "string" THEN Return(<<resolved.value>>)
  ELSE PathPropertyError

(* The path of a path property whose initializer is an identifier.         *)
getPathFromResolvedProperty(resolved) ==
  IF resolved.type = "string" THEN Return(<<resolved.value>>)
  ELSE IF resolved.type = "array" THEN Return(resolved.value)
  ELSE PathPropertyError

getPathFromInitializer(initializer) ==
  IF isStringLiteral(initializer) THEN Return(<<initializer.text>>)
  ELSE IF isArrayLiteralExpression(initializer) THEN getPathFromArray(initializer.elements)
  ELSE IF isIdentifier(initializer)
    THEN getPathFromResolvedProperty(resolveVariable(initializer))
  ELSE PathPropertyError

getPathFromPathProperty(pathProperty) ==
  IF ~isPropertyAssignment(pathProperty)
    THEN InvalidControllerDecoratorError(
           "Controller decorator path property must be a property assignment")
  ELSE getPathFromInitializer(pathProperty.initializer)

getPathFromOptions(arg) ==
  IF findPathProperty(arg.properties) = 0 THEN Return(<<>>)
  ELSE getPathFromPathProperty(arg.properties[findPathProperty(arg.properties)])

(* Variant: a resolved object literal is taken for one without path.       *)
getPathFromResolvedIgnoringOptions(resolved) ==
  IF resolved.type = "string" THEN Return(<<resolved.value>>)
  ELSE IF resolved.type = "array" THEN Return(resolved.value)
  ELSE IF resolved.type = "object" THEN Return(<<>>)
  ELSE ReturnUndefined

(* The path of an identifier argument, from what the identifier resolves   *)
(* to.                                                                     *)
getPathFromResolved(resolved) ==
  IF resolved.type = "string" THEN Return(<<resolved.value>>)
  ELSE IF resolved.type = "array" THEN Return(resolved.value)
  ELSE IF resolved.type = "object" THEN getPathFromOptions(resolved.value)
  ELSE ReturnUndefined

(* Variant: the string literal case is missing.                            *)
getPathFromArgumentIdentifierOnly(arg) ==
  IF isIdentifier(arg) THEN getPathFromResolved(resolveVariable(arg))
  ELSE ReturnUndefined

getPathFromArgument(arg) ==
  IF isStringLiteral(arg) THEN Return(<<arg.text>>)
  ELSE IF isIdentifier(arg) THEN getPathFromResolved(resolveVariable(arg))
  ELSE ReturnUndefined

ArgumentError ==
  InvalidControllerDecoratorError(
    "Controller decorator path must be a string, string array, or ControllerOptions object")

(* Variant: an argument that gives no path is taken for the root path.     *)
requirePathOrRoot(path) == IF path.kind = "undefined" THEN Return(<<>>) ELSE path

(* Variant: the check is missing, undefined is returned as the path.       *)
requirePathUnchecked(path) == path

(* if (path === undefined) throw ...; return path                          *)
requirePath(path) == IF path.kind = "undefined" THEN ArgumentError ELSE path

getPathFromFirstArg(firstArg) ==
  IF isObjectLiteralExpression(firstArg) THEN getPathFromOptions(firstArg)
  ELSE IF isArrayLiteralExpression(firstArg) THEN getPathFromArray(firstArg.elements)
  ELSE requirePath(getPathFromArgument(firstArg))

(* Variant: a call without arguments is reported like an argument that is  *)
(* not a path.                                                             *)
getControllerPathRequiringArgument(decorator) ==
  IF ~isCallExpression(decorator.expression)
    THEN InvalidControllerDecoratorError("Controller decorator must be a function call")
  ELSE IF Len(decorator.expression.arguments) = 0 THEN ArgumentError
  ELSE getPathFromFirstArg(decorator.expression.arguments[1])

getControllerPath(decorator) ==
  IF ~isCallExpression(decorator.expression)
    THEN InvalidControllerDecoratorError("Controller decorator must be a function call")
  ELSE IF Len(decorator.expression.arguments) = 0 THEN Return(<<>>)
  ELSE getPathFromFirstArg(decorator.expression.arguments[1])

(***************************************************************************)
(* Controller detection and the extraction pipeline.                       *)
(***************************************************************************)
(* Variant: a bare @Controller reference is taken for a call.              *)
isControllerDecoratorByName(decorator) ==
  IF isCallExpression(decorator.expression)
    THEN /\ isIdentifier(decorator.expression.expression)
         /\ decorator.expression.expression.text = "Controller"
  ELSE /\ isIdentifier(decorator.expression)
       /\ decorator.expression.text = "Controller"

isControllerDecorator(decorator) ==
  IF ~isCallExpression(decorator.expression) THEN FALSE
  ELSE IF ~isIdentifier(decorator.expression.expression) THEN FALSE
  ELSE decorator.expression.expression.text = "Controller"

(* Variant: the last match is found.                                       *)
findControllerDecoratorLast(decorators) ==
  IF \E i \in 1..Len(decorators) : isControllerDecorator(decorators[i])
    THEN CHOOSE i \in 1..Len(decorators) :
           /\ isControllerDecorator(decorators[i])
           /\ \A j \in (i + 1)..Len(decorators) : ~isControllerDecorator(decorators[j])
  ELSE 0

(* decorators.find(isControllerDecorator): index of the first match, or 0. *)
findControllerDecorator(decorators) ==
  IF \E i \in 1..Len(decorators) : isControllerDecorator(decorators[i])
    THEN CHOOSE i \in 1..Len(decorators) :
           /\ isControllerDecorator(decorators[i])
           /\ \A j \in 1..(i - 1) : ~isControllerDecorator(decorators[j])
  ELSE 0

ControllerInfo(cls, path) == [class |-> cls, path |-> path]
null == [kind |-> "null"]

(* Variant: a class whose path cannot be normalised is dropped silently.   *)
toControllerInfoOrNull(cls, path) ==
  IF path.kind = "throw" THEN Return(null)
  ELSE IF path.kind = "undefined" THEN Return(null)
  ELSE Return(ControllerInfo(cls, path.value))

(* The end of the map callback, after getControllerPath: its throw goes    *)
(* through, undefined gives null, a path gives the ControllerInfo.         *)
toControllerInfo(cls, path) ==
  IF path.kind = "throw" THEN path
  ELSE IF path.kind = "undefined" THEN Return(null)
  ELSE Return(ControllerInfo(cls, path.value))

(* The callback of classes.map: null, a ControllerInfo, or a throw.        *)
mapClass(cls) ==
  IF Len(cls.decorators) = 0 THEN Return(null)
  ELSE IF findControllerDecorator(cls.decorators) = 0 THEN Return(null)
  ELSE toControllerInfo(
         cls, getControllerPath(cls.decorators[findControllerDecorator(cls.decorators)]))

(* Variant: the ControllerInfo of a class is put in front of the others.   *)
collectInFront(infos, info) ==
  IF infos.kind = "throw" THEN infos
  ELSE IF info.kind = "throw" THEN info
  ELSE IF info.value = null THEN infos
  ELSE Return(<<info.value>> \o infos.value)

(* One class more: a throw of the callback ends the call, null is filtered *)
(* out, a ControllerInfo is kept.                                          *)
collect(infos, info) ==
  IF infos.kind = "throw" THEN infos
  ELSE IF info.kind = "throw" THEN info
  ELSE IF info.value = null THEN infos
  ELSE Return(Append(infos.value, info.value))

(* classes.map(...).filter(info => info !== null): loop[i] is the          *)
(* completion after i classes.                                             *)
filterControllerClasses(list) ==
  LET loop[i \in 0..Len(list)] ==
        IF i = 0 THEN Return(<<>>)
        ELSE collect(loop[i - 1], mapClass(list[i]))
  IN loop[Len(list)]

(***************************************************************************)
(* extractClasses: the named class declarations at the top of the files.   *)
(***************************************************************************)
(* file.forEachChild: the children of a source file are its statements and *)
(* its end of file token, in this order; the callback returns nothing, so  *)
(* every child is visited.                                                 *)
forEachChild(file) == file.statements \o <<file.endOfFileToken>>

(* node.name of a class declaration, undefined when the class has none.    *)
hasName(node) == "name" \in DOMAIN node

(* Variant: the name of the class is not looked at.                        *)
visitChildAnyClass(found, node) ==
  IF isClassDeclaration(node) THEN Append(found, node) ELSE found

(* The callback of forEachChild on the classes found so far.               *)
visitChild(found, node) ==
  IF isClassDeclaration(node) /\ hasName(node) THEN Append(found, node) ELSE found

(* The callback of sourceFiles.forEach on the classes found so far.        *)
visitFile(found, children) ==
  LET loop[i \in 0..Len(children)] ==
        IF i = 0 THEN found ELSE visitChild(loop[i - 1], children[i])
  IN loop[Len(children)]

extractClasses(files) ==
  LET loop[i \in 0..Len(files)] ==
        IF i = 0 THEN <<>> ELSE visitFile(loop[i - 1], forEachChild(files[i]))
  IN loop[Len(files)]

(***************************************************************************)
(* expression-resolver: JavaScript values and the ResolverResult holding   *)
(* them.  A value is a record named after its JavaScript type, so that     *)
(* values of different types can be compared.  Numbers are the integers    *)
(* and NaN; fractions and exponents are not explored.                      *)
(***************************************************************************)
JsNumber(n) == [number |-> n]
NaN == [nan |-> TRUE]
JsBigInt(n) == [bigint |-> n]
JsString(s) == [string |-> s]
JsBoolean(b) == [boolean |-> b]
JsRegExp(s) == [regexp |-> s]
JsArray(xs) == [array |-> xs]
JsObject(o) == [object |-> o]
JsUndefined == [undefined |-> TRUE]

ResolverResult(valueType, value) == [valueType |-> valueType, value |-> value]
Unresolved == ResolverResult("undefined", JsUndefined)

(* An exception leaving resolveToLiteral instead of a ResolverResult.      *)
SyntaxError == [kind |-> "throw", error |-> "SyntaxError"]
Throws(r) == "error" \in DOMAIN r

(* Variant: the last character is not cut off.                             *)
sliceToEnd(text, start) == SubSeq(text, start + 1, Len(text))

(* String.prototype.slice(start, -1) on a text of characters.              *)
slice(text, start) == SubSeq(text, start + 1, Len(text) - 1)

DigitChars == <<"0", "1", "2", "3", "4", "5", "6", "7", "8", "9",
                "A", "B", "C", "D", "E", "F">>
isDigit(c, radix) == \E d \in 1..radix : DigitChars[d] = c
digitOf(c) == (CHOOSE d \in 1..Len(DigitChars) : DigitChars[d] = c) - 1

(* The number written by a text of digits in a radix.                      *)
numberOf(digits, radix) ==
  LET acc[i \in 0..Len(digits)] ==
        IF i = 0 THEN 0 ELSE acc[i - 1] * radix + digitOf(digits[i])
  IN acc[Len(digits)]

(* The length of the longest prefix of decimal digits of a text.           *)
digitsPrefix(text) ==
  IF \A i \in 1..Len(text) : isDigit(text[i], 10) THEN Len(text)
  ELSE (CHOOSE i \in 1..Len(text) :
          /\ ~isDigit(text[i], 10)
          /\ \A k \in 1..(i - 1) : isDigit(text[k], 10)) - 1

(* parseFloat: the number written by the longest prefix that is one, NaN   *)
(* when the text starts with no digit.                                     *)
parseFloat(text) ==
  IF digitsPrefix(text) = 0 THEN NaN
  ELSE JsNumber(numberOf(SubSeq(text, 1, digitsPrefix(text)), 10))

allDigits(text, radix) == \A i \in 1..Len(text) : isDigit(text[i], radix)

(* BigInt(string): the integer written in decimal, or in hexadecimal after *)
(* 0x; a text that writes no integer is a SyntaxError.                     *)
BigInt(text) ==
  IF allDigits(text, 10) THEN JsBigInt(numberOf(text, 10))
  ELSE IF /\ Len(text) > 2
          /\ text[1] = "0"
          /\ text[2] = "x"
          /\ allDigits(SubSeq(text, 3, Len(text)), 16)
    THEN JsBigInt(numberOf(SubSeq(text, 3, Len(text)), 16))
  ELSE SyntaxError

(* The character codes that order the ends of a character class range.     *)
charCode(c) ==
  CASE c = "-" -> 45 [] c = "/" -> 47
    [] isDigit(c, 10) -> 48 + digitOf(c)
    [] c = "A" -> 65 [] c = "[" -> 91 [] c = "\\" -> 92 [] c = "]" -> 93
    [] c = "a" -> 97 [] c = "e" -> 101 [] c = "g" -> 103 [] c = "h" -> 104
    [] c = "l" -> 108 [] c = "o" -> 111 [] c = "u" -> 117 [] c = "z" -> 122
    [] c = "{" -> 123 [] c = "}" -> 125

(* The atoms of a character class body read without the u flag: a          *)
(* character, or a backslash and the character it escapes, which then      *)
(* stands for itself.  atoms[i] is the sequence read from position i on.   *)
classAtoms(body) ==
  LET atoms[i \in 1..(Len(body) + 2)] ==
        IF i > Len(body) THEN <<>>
        ELSE IF body[i] = "\\" /\ i < Len(body)
          THEN <<[code |-> charCode(body[i + 1]), dash |-> FALSE]>> \o atoms[i + 2]
        ELSE <<[code |-> charCode(body[i]), dash |-> body[i] = "-"]>> \o atoms[i + 1]
  IN atoms[1]

(* ClassRanges: atom - atom is a range, whose ends must be in order.       *)
rangesInOrder(atoms) ==
  LET ok[i \in 1..(Len(atoms) + 3)] ==
        IF i > Len(atoms) THEN TRUE
        ELSE IF i + 2 <= Len(atoms) /\ atoms[i + 1].dash
          THEN atoms[i].code <= atoms[i + 2].code /\ ok[i + 3]
        ELSE ok[i + 1]
  IN ok[1]

indexOf(text, c) ==
  IF \E i \in 1..Len(text) : text[i] = c
    THEN CHOOSE i \in 1..Len(text) : text[i] = c /\ \A k \in 1..(i - 1) : text[k] # c
  ELSE 0

(* new RegExp(pattern), without flags: a pattern whose character class has *)
(* a range out of order is a SyntaxError.                                  *)
newRegExp(pattern) ==
  IF indexOf(pattern, "[") = 0 \/ indexOf(pattern, "]") < indexOf(pattern, "[")
    THEN JsRegExp(pattern)
  ELSE IF rangesInOrder(classAtoms(
            SubSeq(pattern, indexOf(pattern, "[") + 1, indexOf(pattern, "]") - 1)))
    THEN JsRegExp(pattern)
  ELSE SyntaxError

(***************************************************************************)
(* The types the checker gives to symbols (typeChecker.getTypeOfSymbol):   *)
(* the type of a const declaration is the type of its initializer, a       *)
(* literal type for a primitive literal; the type of an import or          *)
(* re-export binding is the type of the symbol it stands for.              *)
(***************************************************************************)
Type(flags) == [flags |-> flags]
StringLiteralType(s) == [flags |-> "StringLiteral", value |-> s]

getTypeOfExpression(initializer) ==
  CASE initializer.kind \in {"StringLiteral", "NoSubstitutionTemplateLiteral"}
         -> StringLiteralType(initializer.text)
    [] initializer.kind = "NumericLiteral" -> Type("NumberLiteral")
    [] initializer.kind = "BigIntLiteral" -> Type("BigIntLiteral")
    [] initializer.kind \in {"TrueKeyword", "FalseKeyword"} -> Type("BooleanLiteral")
    [] initializer.kind \in {"ArrayLiteralExpression", "ObjectLiteralExpression"}
         -> Type("Object")
    [] OTHER -> Type("Any")

getTypeOfDeclarations(declarations) ==
  IF Len(declarations) = 0 THEN Type("Any")
  ELSE IF ~isVariableDeclaration(declarations[1]) THEN Type("Object")
  ELSE IF ~declarations[1].hasInitializer THEN Type("Any")
  ELSE getTypeOfExpression(declarations[1].initializer)

getTypeOfSymbol(symbol) ==
  IF symbol.flags = "Property" THEN Type("Any")
  ELSE getTypeOfDeclarations(getAliasedSymbol(symbol).declarations)

(* The symbol at the name of a property assignment: the property itself.   *)
PropertySymbol(name) == [flags |-> "Property", escapedName |-> name]

(***************************************************************************)
(* resolveToLiteral and its helpers.                                       *)
(***************************************************************************)
resolveTypeToLiteral(typeObject) ==
  IF typeObject.flags = "StringLiteral"
    THEN ResolverResult("StringLiteral", JsString(typeObject.value))
  ELSE Unresolved

resolveSymbolToLiteral(symbol) ==
  IF symbol.flags = "Property"
    THEN ResolverResult("StringLiteral", JsString(symbol.escapedName))
  ELSE resolveTypeToLiteral(getTypeOfSymbol(symbol))

(* The value of a literal whose payload a conversion computes: the         *)
(* exception of the conversion goes through.                               *)
converted(valueType, value) ==
  IF Throws(value) THEN value ELSE ResolverResult(valueType, value)

(* -result.value                                                            *)
negate(value) == IF value = NaN THEN NaN ELSE JsNumber(0 - value.number)

(* case MinusToken, after the operand is resolved.                         *)
minusLiteral(resolved) ==
  IF Throws(resolved) THEN resolved
  ELSE IF resolved.valueType = "NumericLiteral"
    THEN ResolverResult("NumericLiteral", negate(resolved.value))
  ELSE Unresolved

(* elements.map(...): the exception of the first element that throws, else *)
(* the array of the elements' results.                                     *)
arrayLiteral(mapped) ==
  IF \E i \in 1..Len(mapped) : Throws(mapped[i])
    THEN mapped[CHOOSE i \in 1..Len(mapped) :
                  /\ Throws(mapped[i])
                  /\ \A k \in 1..(i - 1) : ~Throws(mapped[k])]
  ELSE ResolverResult("ArrayLiteralExpression", JsArray(mapped))

(* The property key a value is converted to when it indexes an object.     *)
ToPropertyKey(value) ==
  CASE "string" \in DOMAIN value -> value.string
    [] "undefined" \in DOMAIN value -> "undefined"
    [] "boolean" \in DOMAIN value -> (IF value.boolean THEN "true" ELSE "false")
    [] "nan" \in DOMAIN value -> "NaN"
    [] "number" \in DOMAIN value -> DigitChars[value.number + 1]
    [] "bigint" \in DOMAIN value -> DigitChars[value.bigint + 1]

(* acc[key] = value on the object collected so far.                        *)
setProperty(acc, key, value) ==
  JsObject([k \in DOMAIN acc.object \cup {key} |->
              IF k = key THEN value ELSE acc.object[k]])

(* acc[key.value] = value.value, after key and value are resolved.         *)
assignProperty(acc, key, value) ==
  IF Throws(key) THEN key
  ELSE IF Throws(value) THEN value
  ELSE setProperty(acc, ToPropertyKey(key.value), value.value)

objectLiteral(acc) ==
  IF Throws(acc) THEN acc ELSE ResolverResult("ObjectLiteralExpression", acc)

RECURSIVE resolveToLiteral(_)

(* resolveToLiteral(prop.name): at the identifier that names a property    *)
(* the checker gives the property's symbol, whatever variables are called. *)
resolvePropertyName(name) ==
  IF isIdentifier(name) THEN resolveSymbolToLiteral(PropertySymbol(name.text))
  ELSE resolveToLiteral(name)

(* properties.reduce(...): reduce[i] is the object after i properties, or  *)
(* the exception thrown on the way.                                        *)
reduceProperties(properties) ==
  LET reduce[i \in 0..Len(properties)] ==
        IF i = 0 THEN JsObject(<<>>)
        ELSE IF Throws(reduce[i - 1]) THEN reduce[i - 1]
        ELSE IF ~isPropertyAssignment(properties[i]) THEN reduce[i - 1]
        ELSE assignProperty(reduce[i - 1],
                            resolvePropertyName(properties[i].name),
                            resolveToLiteral(properties[i].initializer))
  IN reduce[Len(properties)]

resolvePrefixUnaryExpressionToLiteral(expression) ==
  IF expression.operator = "MinusToken"
    THEN minusLiteral(resolveToLiteral(expression.operand))
  ELSE Unresolved

resolveToLiteral(expression) ==
  CASE expression.kind = "NumericLiteral"
         -> ResolverResult("NumericLiteral", parseFloat(expression.text))
    [] expression.kind = "BigIntLiteral"
         -> converted("BigIntLiteral", BigInt(slice(expression.text, 0)))
    [] expression.kind \in {"StringLiteral", "NoSubstitutionTemplateLiteral"}
         -> ResolverResult("StringLiteral", JsString(expression.text))
    [] expression.kind = "RegularExpressionLiteral"
         -> converted("RegularExpressionLiteral", newRegExp(slice(expression.text, 1)))
    [] expression.kind = "TrueKeyword" -> ResolverResult("TrueKeyword", JsBoolean(TRUE))
    [] expression.kind = "FalseKeyword" -> ResolverResult("FalseKeyword", JsBoolean(FALSE))
    [] expression.kind = "PrefixUnaryExpression"
         -> resolvePrefixUnaryExpressionToLiteral(expression)
    [] expression.kind = "ArrayLiteralExpression"
         -> arrayLiteral([i \in 1..Len(expression.elements) |->
                            resolveToLiteral(expression.elements[i])])
    [] expression.kind \in {"ParenthesizedExpression", "ComputedPropertyName"}
         -> resolveToLiteral(expression.expression)
    [] expression.kind = "ObjectLiteralExpression"
         -> objectLiteral(reduceProperties(expression.properties))
    [] expression.kind = "Identifier"
         -> IF ~hasSymbol(expression)
              THEN ResolverResult("StringLiteral", JsString(expression.text))
            ELSE resolveSymbolToLiteral(getSymbolAtLocation(expression))
    [] OTHER -> Unresolved

(***************************************************************************)
(* The inputs explored: argument expressions, decorators, classes, lists.  *)
(***************************************************************************)
LiteralTexts == {"api", "v1", ""}

IdentifierTexts == DOMAIN SymbolTable \cup {"undeclared"}

(* Expressions that are neither an array nor an object literal.            *)
AtomExpressions ==
  {StringLiteral(s) : s \in LiteralTexts}
    \cup {Identifier(n) : n \in IdentifierTexts}
    \cup {NoSubstitutionTemplateLiteral("api"), NumericLiteral(<<"1", "2", "3">>), TrueKeyword,
          ParenthesizedExpression(StringLiteral("api")),
          CallExpression(Identifier("someFunction"), <<>>)}

ElementExpressions ==
  {StringLiteral(s) : s \in LiteralTexts}
    \cup {Identifier(n) : n \in {"API_PREFIX", "PATHS", "REEXPORTED_PREFIX", "NESTED_PATHS",
                                 "INVALID_PREFIX", "CONTROLLER_CONFIG", "MIXED_PATHS",
                                 "DECLARED_ONLY", "someFunction", "undeclared"}}
    \cup {NumericLiteral(<<"1">>), TrueKeyword, ObjectLiteralExpression(<<>>)}

ArrayExpressions ==
  {ArrayLiteralExpression(es) : es \in SeqsUpTo(ElementExpressions, MaxElems)}

PathProperty(e) == PropertyAssignment(Identifier("path"), e)

PropertyUniverse ==
  {PropertyAssignment(Identifier("host"), StringLiteral("example.com")),
   PropertyAssignment(StringLiteral("path"), StringLiteral("quoted")),
   ShorthandPropertyAssignment(Identifier("path"))}
    \cup {PathProperty(e) : e \in
            {StringLiteral("api"), StringLiteral("v1"), NumericLiteral(<<"1", "2", "3">>),
             Identifier("API_PREFIX"), Identifier("PATHS"), Identifier("CONTROLLER_CONFIG"),
             ArrayLiteralExpression(<<>>),
             ArrayLiteralExpression(<<StringLiteral("v1"), Identifier("API_VERSION")>>)}}

ObjectExpressions ==
  {ObjectLiteralExpression(ps) : ps \in SeqsUpTo(PropertyUniverse, MaxProps)}
    \cup {ObjectLiteralExpression(<<PathProperty(e)>>) :
            e \in AtomExpressions \cup ArrayExpressions}

ArgumentExpressions == AtomExpressions \cup ArrayExpressions \cup ObjectExpressions

ControllerCall(as) == Decorator(CallExpression(Identifier("Controller"), as))

(* Decorators of every shape isControllerDecorator tells apart.            *)
CoreDecorators ==
  {ControllerCall(<<>>),
   ControllerCall(<<StringLiteral("api")>>),
   ControllerCall(<<StringLiteral("v1"), NumericLiteral(<<"1", "2", "3">>)>>),
   ControllerCall(<<ArrayLiteralExpression(<<>>)>>),
   Decorator(Identifier("Controller")),
   Decorator(CallExpression(Identifier("Injectable"), <<>>)),
   Decorator(CallExpression(Identifier("Ctrl"), <<StringLiteral("api")>>)),
   Decorator(CallExpression(Identifier("ApiController"), <<StringLiteral("api")>>)),
   Decorator(CallExpression(
     PropertyAccessExpression(Identifier("nest"), Identifier("Controller")),
     <<StringLiteral("api")>>))}

CoreClasses ==
  {ClassDeclaration("RootController", <<ControllerCall(<<>>)>>),
   ClassDeclaration("UserController", <<ControllerCall(<<StringLiteral("users")>>)>>),
   ClassDeclaration("VersionedController",
     <<ControllerCall(<<ArrayLiteralExpression(<<StringLiteral("v1"), StringLiteral("v2")>>)>>)>>),
   ClassDeclaration("ApiController", <<ControllerCall(<<Identifier("API_PREFIX")>>)>>),
   ClassDeclaration("EmptyArrayController",
     <<ControllerCall(<<ArrayLiteralExpression(<<>>)>>)>>),
   ClassDeclaration("NonStringPathController",
     <<ControllerCall(<<ObjectLiteralExpression(<<PathProperty(NumericLiteral(<<"1", "2", "3">>))>>)>>)>>),
   ClassDeclaration("NonStringVariableController",
     <<ControllerCall(<<Identifier("INVALID_PREFIX")>>)>>),
   ClassDeclaration("CreateUserDto", <<>>),
   ClassDeclaration("UserService",
     <<Decorator(CallExpression(Identifier("Injectable"), <<>>))>>),
   ClassDeclaration("BareController", <<Decorator(Identifier("Controller"))>>)}

ClassLists ==
  SeqsUpTo(CoreClasses, MaxClasses)
    \cup {<<ClassDeclaration("ArgumentController", <<ControllerCall(<<a>>)>>)>> :
            a \in ArgumentExpressions}
    \cup {<<ClassDeclaration("DecoratedClass", ds)>> :
            ds \in SeqsUpTo(CoreDecorators, MaxDecorators)}

(***************************************************************************)
(* The parser's numeric tokens.  A numeric literal of the source text has  *)
(* a notation, digits and possibly the n suffix; the node the parser makes *)
(* of it carries the number in decimal, a big integer keeps its digits     *)
(* (binary and octal ones are rewritten in decimal) and its suffix.        *)
(***************************************************************************)
NumericSource(notation, digits, suffixed) ==
  [notation |-> notation, digits |-> digits, bigint |-> suffixed]

radixOf(notation) ==
  CASE notation = "decimal" -> 10 [] notation = "hexadecimal" -> 16
    [] notation = "octal" -> 8 [] notation = "binary" -> 2

(* "" + n: the decimal digits of a natural number.                         *)
toDecimal(n) ==
  LET dec[k \in 0..n] ==
        IF k < 10 THEN <<DigitChars[k + 1]>>
        ELSE dec[k \div 10] \o <<DigitChars[(k % 10) + 1]>>
  IN dec[n]

bigIntText(source) ==
  IF source.notation \in {"binary", "octal"}
    THEN toDecimal(numberOf(source.digits, radixOf(source.notation)))
  ELSE IF source.notation = "hexadecimal" THEN <<"0", "x">> \o source.digits
  ELSE source.digits

scanNumber(source) ==
  IF source.bigint THEN BigIntLiteral(bigIntText(source) \o <<"n">>)
  ELSE NumericLiteral(toDecimal(numberOf(source.digits, radixOf(source.notation))))

(***************************************************************************)
(* The expressions resolveToLiteral is explored on.                        *)
(***************************************************************************)
NumericSources ==
  {NumericSource(s[1], s[2], b) :
     s \in {<<"decimal", <<"1", "2", "3">>>>, <<"decimal", <<"0">>>>,
            <<"hexadecimal", <<"F", "F">>>>, <<"hexadecimal", <<"1", "F">>>>,
            <<"octal", <<"1", "7">>>>, <<"binary", <<"1", "0", "1", "0">>>>},
     b \in BOOLEAN}

(* /[\u{61}-\u{7A}]/u                                                       *)
UnicodeLettersPattern ==
  RegularExpressionLiteral(
    <<"/", "[", "\\", "u", "{", "6", "1", "}", "-", "\\", "u", "{", "7", "A", "}", "]",
      "/", "u">>)

SomeCall == CallExpression(Identifier("someFunction"), <<>>)

EvalAtoms ==
  {scanNumber(s) : s \in NumericSources}
    \cup {StringLiteral("hello"), StringLiteral(""), NoSubstitutionTemplateLiteral("hello"),
          TrueKeyword, FalseKeyword}
    \cup {RegularExpressionLiteral(<<"/", "h", "e", "l", "l", "o", "/">>),
          RegularExpressionLiteral(<<"/", "h", "e", "l", "l", "o", "/", "g">>),
          RegularExpressionLiteral(<<"/", "[", "a", "-", "z", "]", "/">>),
          UnicodeLettersPattern}
    \cup {Identifier(n) : n \in IdentifierTexts}
    \cup {SomeCall,
          PropertyAccessExpression(Identifier("CONTROLLER_CONFIG"), Identifier("path")),
          TemplateExpression("Value: ", <<TemplateSpan(NumericLiteral(<<"1", "2", "3">>), "")>>),
          TemplateExpression("Hello ", <<TemplateSpan(StringLiteral("world"), "")>>),
          TemplateExpression("", <<TemplateSpan(NumericLiteral(<<"1">>), " + "),
                                   TemplateSpan(NumericLiteral(<<"2">>), " = "),
                                   TemplateSpan(NumericLiteral(<<"3">>), "")>>),
          TemplateExpression("Call: ", <<TemplateSpan(SomeCall, "")>>),
          PrefixUnaryExpression("MinusToken", NumericLiteral(<<"1", "2", "3">>)),
          PrefixUnaryExpression("MinusToken", StringLiteral("hello")),
          PrefixUnaryExpression("MinusToken",
            PrefixUnaryExpression("MinusToken", NumericLiteral(<<"1">>))),
          PrefixUnaryExpression("PlusToken", NumericLiteral(<<"1">>)),
          PrefixUnaryExpression("MinusToken", UnicodeLettersPattern),
          ParenthesizedExpression(StringLiteral("hello")),
          ParenthesizedExpression(SomeCall)}

EvalElements ==
  {StringLiteral("hello"), NumericLiteral(<<"1", "2", "3">>), TrueKeyword, SomeCall,
   Identifier("API_PREFIX"), Identifier("INVALID_PREFIX"), UnicodeLettersPattern,
   ArrayLiteralExpression(<<StringLiteral("hello"), SomeCall>>)}

EvalProperties ==
  {PropertyAssignment(Identifier("hello"), NumericLiteral(<<"1", "2", "3">>)),
   PropertyAssignment(StringLiteral("hello"), StringLiteral("world")),
   PropertyAssignment(ComputedPropertyName(Identifier("API_PREFIX")), TrueKeyword),
   PropertyAssignment(ComputedPropertyName(SomeCall), NumericLiteral(<<"1">>)),
   PropertyAssignment(Identifier("PATHS"), SomeCall),
   PropertyAssignment(Identifier("nested"),
     ArrayLiteralExpression(<<NumericLiteral(<<"1">>)>>)),
   PropertyAssignment(Identifier("pattern"), UnicodeLettersPattern),
   ShorthandPropertyAssignment(Identifier("path")),
   MethodDeclaration(Identifier("run"))}

EvalExpressions ==
  EvalAtoms
    \cup {ArrayLiteralExpression(es) : es \in SeqsUpTo(EvalElements, MaxElems)}
    \cup {ObjectLiteralExpression(ps) : ps \in SeqsUpTo(EvalProperties, MaxProps)}

(***************************************************************************)
(* The programs extractClasses is explored on: files of every statement    *)
(* extractClasses tells apart, and the files of the fixtures together.     *)
(***************************************************************************)
(* The statements a file is made of: declared classes with and without a   *)
(* Controller decorator, a class without name, a class expression, classes *)
(* nested in a namespace and in a block, statements that are no class.     *)
Statements ==
  {ClassDeclaration("UserController", <<ControllerCall(<<StringLiteral("users")>>)>>),
   ClassDeclaration("PostController", <<ControllerCall(<<StringLiteral("posts")>>)>>),
   ClassDeclaration("CreateUserDto", <<>>),
   ClassDeclaration("BrokenController", <<ControllerCall(<<ArrayLiteralExpression(<<>>)>>)>>),
   DefaultClassDeclaration(<<ControllerCall(<<StringLiteral("default")>>)>>),
   VariableStatement(ClassExpression),
   VariableStatement(ObjectLiteralExpression(<<>>)),
   ModuleDeclaration("admin",
     <<ClassDeclaration("AdminController", <<ControllerCall(<<StringLiteral("admin")>>)>>)>>),
   Block(<<ClassDeclaration("LocalController", <<ControllerCall(<<StringLiteral("local")>>)>>)>>),
   ImportDeclaration}

FixtureFiles ==
  {SourceFile("user.controller.ts",
     <<ImportDeclaration,
       ClassDeclaration("UserController", <<ControllerCall(<<StringLiteral("users")>>)>>),
       ClassDeclaration("CreateUserDto", <<>>)>>),
   SourceFile("post.controller.ts",
     <<ImportDeclaration,
       ClassDeclaration("PostController", <<ControllerCall(<<StringLiteral("posts")>>)>>)>>),
   SourceFile("anonymous-class.ts",
     <<VariableStatement(ClassExpression), ClassDeclaration("NamedClass", <<>>)>>),
   SourceFile("empty.ts", <<>>)}

Programs ==
  {<<SourceFile("classes.ts", statements)>> :
     statements \in SeqsUpTo(Statements, MaxStatements)}
    \cup SeqsUpTo(FixtureFiles, MaxFiles)

(***************************************************************************)
(* One call of filterControllerClasses on a list of classes.               *)
(***************************************************************************)
Init ==
  /\ sourceFiles = <<>>
  /\ classes \in ClassLists
  /\ pc = "ready"
  /\ result = <<>>
  /\ error = ""
  /\ expr = null
  /\ literal = null
  /\ snapshot = <<>>
  /\ stack = <<>>
  /\ returnValue = null

(* The call completes: it has returned its records or thrown its error.    *)
Complete(outcome) ==
  IF outcome.kind = "throw"
    THEN /\ pc' = "thrown"
         /\ error' = outcome.error
         /\ result' = <<>>
  ELSE /\ pc' = "returned"
       /\ result' = outcome.value
       /\ error' = ""

FilterControllerClasses ==
  /\ pc = "ready"
  /\ Complete(filterControllerClasses(classes))
  /\ UNCHANGED <<sourceFiles, classes, expr, literal, snapshot, stack, returnValue>>

Next == FilterControllerClasses

Spec == Init /\ [][Next]_vars

(***************************************************************************)
(* One call of resolveToLiteral on an expression.                          *)
(***************************************************************************)
EvalInit ==
  /\ sourceFiles = <<>>
  /\ expr \in EvalExpressions
  /\ pc = "ready"
  /\ literal = null
  /\ error = ""
  /\ classes = <<>>
  /\ result = <<>>
  /\ snapshot = <<>>
  /\ stack = <<>>
  /\ returnValue = null

(* The call completes: it has returned its value or thrown its exception.  *)
CompleteLiteral(outcome) ==
  IF Throws(outcome)
    THEN /\ pc' = "thrown"
         /\ error' = outcome.error
         /\ literal' = null
  ELSE /\ pc' = "returned"
       /\ literal' = outcome
       /\ error' = ""

ResolveToLiteral ==
  /\ pc = "ready"
  /\ CompleteLiteral(resolveToLiteral(expr))
  /\ UNCHANGED <<sourceFiles, classes, result, expr, snapshot, stack, returnValue>>

EvalNext == ResolveToLiteral

EvalSpec == EvalInit /\ [][EvalNext]_vars

(***************************************************************************)
(* extractClasses on a program, then filterControllerClasses on the        *)
(* classes it returns.                                                     *)
(***************************************************************************)
ExtractInit ==
  /\ sourceFiles \in Programs
  /\ pc = "loaded"
  /\ classes = <<>>
  /\ result = <<>>
  /\ error = ""
  /\ expr = null
  /\ literal = null
  /\ snapshot = <<>>
  /\ stack = <<>>
  /\ returnValue = null

ExtractClasses ==
  /\ pc = "loaded"
  /\ classes' = extractClasses(sourceFiles)
  /\ pc' = "ready"
  /\ UNCHANGED <<sourceFiles, result, error, expr, literal, snapshot, stack, returnValue>>

ExtractNext == ExtractClasses \/ FilterControllerClasses

ExtractSpec == ExtractInit /\ [][ExtractNext]_vars

(***************************************************************************)
(* One call of resolveVariable on an identifier, frame by frame: the       *)
(* declarations of the snapshot may refer to each other in any way, to     *)
(* themselves and to each other in a circle included.                      *)
(***************************************************************************)
(* The initializers of the declarations: a string, an object, arrays of    *)
(* strings, of identifiers and of a number.                                *)
Snapshots ==
  LET names == {"A", "B"}
      elements == {StringLiteral("x"), NumericLiteral(<<"1">>)}
                    \cup {Identifier(n) : n \in names \cup {"undeclared"}}
      initializers == {StringLiteral("a"), ObjectLiteralExpression(<<>>)}
                        \cup {ArrayLiteralExpression(es) : es \in SeqsUpTo(elements, MaxElems)}
  IN [names -> {VariableSymbol(e) : e \in initializers}]

(* A frame of resolveVariable(node): the elements pushed so far, how many  *)
(* elements of the initializer the loop has gone through, and whether an   *)
(* element made it return undefined.                                       *)
Frame(node) == [node |-> node, index |-> 0, elements |-> <<>>, failed |-> FALSE]

(* The initializer the frame reads, none when resolveVariable returns      *)
(* before reading one.                                                     *)
initializerOf(node) ==
  IF node.text \notin DOMAIN snapshot THEN [found |-> FALSE]
  ELSE LET declarations == followAlias(snapshot[node.text]).declarations IN
         IF Len(declarations) = 0 THEN [found |-> FALSE]
         ELSE IF ~isVariableDeclaration(declarations[1]) THEN [found |-> FALSE]
         ELSE IF ~declarations[1].hasInitializer THEN [found |-> FALSE]
         ELSE [found |-> TRUE, node |-> declarations[1].initializer]

(* The frame is in the loop over the elements of an array initializer, at  *)
(* an element.                                                             *)
atElement(frame) ==
  /\ ~frame.failed
  /\ initializerOf(frame.node).found
  /\ isArrayLiteralExpression(initializerOf(frame.node).node)
  /\ frame.index < Len(initializerOf(frame.node).node.elements)

element(frame) == initializerOf(frame.node).node.elements[frame.index + 1]

(* The frame is at a return statement.                                     *)
atReturn(frame) ==
  IF atElement(frame)
    THEN ~isStringLiteral(element(frame)) /\ ~isIdentifier(element(frame))
  ELSE TRUE

(* What the frame returns there.                                           *)
returned(frame) ==
  IF frame.failed \/ ~initializerOf(frame.node).found THEN undefined
  ELSE IF isStringLiteral(initializerOf(frame.node).node)
    THEN StringValue(initializerOf(frame.node).node.text)
  ELSE IF isArrayLiteralExpression(initializerOf(frame.node).node)
    THEN IF atElement(frame) THEN undefined ELSE ArrayValue(frame.elements)
  ELSE IF isObjectLiteralExpression(initializerOf(frame.node).node)
    THEN ObjectValue(initializerOf(frame.node).node)
  ELSE undefined

(* The calling frame after resolveVariable(element) has returned.          *)
resumed(frame, resolved) ==
  IF pushResolved(ArrayValue(frame.elements), resolved).type = "undefined"
    THEN [frame EXCEPT !.failed = TRUE]
  ELSE [frame EXCEPT !.elements = pushResolved(ArrayValue(frame.elements), resolved).value,
                     !.index = @ + 1]

ResolveInit ==
  /\ snapshot \in Snapshots
  /\ expr \in {Identifier("A"), Identifier("B"), Identifier("undeclared")}
  /\ pc = "ready"
  /\ stack = <<>>
  /\ returnValue = null
  /\ error = ""
  /\ sourceFiles = <<>>
  /\ classes = <<>>
  /\ result = <<>>
  /\ literal = null

(* getPathFromArgument calls resolveVariable(arg).                         *)
ResolveVariable ==
  /\ pc = "ready"
  /\ stack' = <<Frame(expr)>>
  /\ pc' = "resolving"
  /\ UNCHANGED <<sourceFiles, classes, result, error, expr, literal, snapshot, returnValue>>

(* elements.push(element.text)                                             *)
PushStringElement ==
  /\ pc = "resolving"
  /\ atElement(stack[Len(stack)])
  /\ isStringLiteral(element(stack[Len(stack)]))
  /\ stack' = [stack EXCEPT ![Len(stack)] =
                 [@ EXCEPT !.elements = Append(@, element(stack[Len(stack)]).text),
                           !.index = @ + 1]]
  /\ UNCHANGED <<sourceFiles, classes, pc, result, error, expr, literal, snapshot, returnValue>>

(* resolveVariable(element, program): one frame more on the call stack.    *)
CallResolveVariable ==
  /\ pc = "resolving"
  /\ atElement(stack[Len(stack)])
  /\ isIdentifier(element(stack[Len(stack)]))
  /\ Len(stack) < StackLimit
  /\ stack' = Append(stack, Frame(element(stack[Len(stack)])))
  /\ UNCHANGED <<sourceFiles, classes, pc, result, error, expr, literal, snapshot, returnValue>>

(* The call for which the stack has no room: the engine throws RangeError  *)
(* (Maximum call stack size exceeded), which no frame catches.             *)
StackOverflow ==
  /\ pc = "resolving"
  /\ atElement(stack[Len(stack)])
  /\ isIdentifier(element(stack[Len(stack)]))
  /\ Len(stack) = StackLimit
  /\ pc' = "thrown"
  /\ error' = "RangeError"
  /\ stack' = <<>>
  /\ UNCHANGED <<sourceFiles, classes, result, expr, literal, snapshot, returnValue>>

(* A return of the top frame, to the frame that called it or to the caller *)
(* of resolveVariable.                                                     *)
ReturnResolved ==
  /\ pc = "resolving"
  /\ atReturn(stack[Len(stack)])
  /\ IF Len(stack) = 1
       THEN /\ returnValue' = returned(stack[1])
            /\ pc' = "returned"
            /\ stack' = <<>>
       ELSE /\ stack' = Append(SubSeq(stack, 1, Len(stack) - 2),
                               resumed(stack[Len(stack) - 1], returned(stack[Len(stack)])))
            /\ UNCHANGED <<pc, returnValue>>
  /\ UNCHANGED <<sourceFiles, classes, result, error, expr, literal, snapshot>>

ResolveNext ==
  \/ ResolveVariable
  \/ PushStringElement
  \/ CallResolveVariable
  \/ StackOverflow
  \/ ReturnResolved

ResolveSpec == ResolveInit /\ [][ResolveNext]_vars



(***************************************************************************)
(* Vocabulary of the properties, read off the syntax tree alone.           *)
(***************************************************************************)
Called == pc # "ready"

(* A decorator written as a call whose callee is the identifier Controller *)
IsControllerCall(d) ==
  /\ d.expression.kind = "CallExpression"
  /\ d.expression.expression.kind = "Identifier"
  /\ d.expression.expression.text = "Controller"

HasMarker(cls) == \E i \in 1..Len(cls.decorators) : IsControllerCall(cls.decorators[i])

MarkerOf(cls) ==
  cls.decorators[CHOOSE i \in 1..Len(cls.decorators) :
                   /\ IsControllerCall(cls.decorators[i])
                   /\ \A j \in 1..(i - 1) : ~IsControllerCall(cls.decorators[j])]

HasFirstArg(cls) == HasMarker(cls) /\ Len(MarkerOf(cls).expression.arguments) > 0
FirstArg(cls) == MarkerOf(cls).expression.arguments[1]
FirstArgIs(cls, k) == HasFirstArg(cls) /\ FirstArg(cls).kind = k

RecordFor(cls, path) ==
  \E i \in 1..Len(result) : result[i] = [class |-> cls, path |-> path]

(* The class at position j is in the result with this path whenever the    *)
(* call returns, and on its own it makes the call return.                  *)
Yields(j, path) ==
  /\ pc = "returned" => RecordFor(classes[j], path)
  /\ (Called /\ Len(classes) = 1) => pc = "returned" /\ Len(result) = 1

ThrowsInvalid ==
  /\ pc = "thrown"
  /\ error = "InvalidControllerDecoratorError"
  /\ result = <<>>

(***************************************************************************)
(* C1: filterControllerClasses returns a record only for classes that      *)
(* carry a decorator written as a call of the identifier Controller; a     *)
(* list of classes none of which carries one (no decorators, decorators of *)
(* other names, a bare @Controller) gives no record and no error.          *)
(***************************************************************************)
C1_OnlyControllerCalls ==
  /\ pc = "returned" => \A i \in 1..Len(result) : HasMarker(result[i].class)
  /\ (Called /\ \A j \in 1..Len(classes) : ~HasMarker(classes[j]))
       => pc = "returned" /\ result = <<>>

C1_Witness ==
  /\ pc = "returned"
  /\ result = <<>>
  /\ Len(classes) = 1
  /\ classes[1].decorators =
       <<Decorator(Identifier("Controller")),
         Decorator(CallExpression(Identifier("ApiController"), <<StringLiteral("api")>>))>>

(***************************************************************************)
(* C2: when path normalisation fails for one class carrying a qualifying   *)
(* marker, the whole call fails with InvalidControllerDecoratorError and   *)
(* returns no records, wherever that class stands in the list and whatever *)
(* the other classes are.                                                  *)
(***************************************************************************)
NormalizationFails(cls) ==
  HasMarker(cls) /\ getControllerPath(MarkerOf(cls)).kind = "throw"

C2_FailFast ==
  (Called /\ \E j \in 1..Len(classes) : NormalizationFails(classes[j]))
    => ThrowsInvalid

C2_Witness ==
  /\ ThrowsInvalid
  /\ Len(classes) = 2
  /\ ~NormalizationFails(classes[1])
  /\ HasMarker(classes[1])
  /\ NormalizationFails(classes[2])

(***************************************************************************)
(* C3: a class whose matched marker has a string literal s as first        *)
(* argument is recorded with the path <<s>>.                               *)
(***************************************************************************)
C3_StringLiteralPath ==
  \A j \in 1..Len(classes) :
    FirstArgIs(classes[j], "StringLiteral")
      => Yields(j, <<FirstArg(classes[j]).text>>)

C3_Witness ==
  /\ pc = "returned"
  /\ Len(classes) = 1
  /\ FirstArgIs(classes[1], "StringLiteral")
  /\ result = <<[class |-> classes[1], path |-> <<"v1">>]>>

(***************************************************************************)
(* C4: a class whose matched marker is invoked without arguments is        *)
(* recorded with the empty path, and no error is raised.                   *)
(***************************************************************************)
C4_NoArgumentRootPath ==
  \A j \in 1..Len(classes) :
    (HasMarker(classes[j]) /\ ~HasFirstArg(classes[j])) => Yields(j, <<>>)

C4_Witness ==
  /\ pc = "returned"
  /\ Len(classes) = 1
  /\ HasMarker(classes[1]) /\ ~HasFirstArg(classes[1])
  /\ result = <<[class |-> classes[1], path |-> <<>>]>>


(***************************************************************************)
(* C5: a non-empty array literal of string literals as first argument      *)
(* gives a path of the same length, the elements' texts in source order.   *)
(***************************************************************************)
AllStringLiterals(es) == \A i \in 1..Len(es) : es[i].kind = "StringLiteral"
Texts(es) == [i \in 1..Len(es) |-> es[i].text]

C5_StringArrayPath ==
  \A j \in 1..Len(classes) :
    (/\ FirstArgIs(classes[j], "ArrayLiteralExpression")
     /\ Len(FirstArg(classes[j]).elements) > 0
     /\ AllStringLiterals(FirstArg(classes[j]).elements))
      => /\ Yields(j, Texts(FirstArg(classes[j]).elements))
         /\ Len(Texts(FirstArg(classes[j]).elements)) = Len(FirstArg(classes[j]).elements)

C5_Witness ==
  /\ pc = "returned"
  /\ Len(classes) = 1
  /\ FirstArgIs(classes[1], "ArrayLiteralExpression")
  /\ result = <<[class |-> classes[1], path |-> <<"v1", "api">>]>>

(***************************************************************************)
(* The path field of an object literal: its first property whose name is   *)
(* the identifier path, written in full (path: e, of value e) or in        *)
(* shorthand ({ path }, of value the variable path).                       *)
(***************************************************************************)
IsPathField(prop) ==
  /\ prop.kind \in {"PropertyAssignment", "ShorthandPropertyAssignment"}
  /\ prop.name.kind = "Identifier"
  /\ prop.name.text = "path"

HasPathField(o) == \E i \in 1..Len(o.properties) : IsPathField(o.properties[i])

PathField(o) ==
  o.properties[CHOOSE i \in 1..Len(o.properties) :
                 /\ IsPathField(o.properties[i])
                 /\ \A k \in 1..(i - 1) : ~IsPathField(o.properties[k])]

PathFieldValue(o) ==
  IF PathField(o).kind = "PropertyAssignment" THEN PathField(o).initializer
  ELSE PathField(o).name

HasPathValue(cls) ==
  FirstArgIs(cls, "ObjectLiteralExpression") /\ HasPathField(FirstArg(cls))

PathValue(cls) == PathFieldValue(FirstArg(cls))

EmptyArray(e) == e.kind = "ArrayLiteralExpression" /\ Len(e.elements) = 0

(***************************************************************************)
(* C6: an empty array literal, as first argument or as value of the path   *)
(* field of a configuration object, makes the call fail with               *)
(* InvalidControllerDecoratorError; it never gives an empty path.          *)
(***************************************************************************)
RefersToEmptyPathConfig(cls) ==
  /\ FirstArgIs(cls, "Identifier")
  /\ resolveVariable(FirstArg(cls)).type = "object"
  /\ HasPathField(resolveVariable(FirstArg(cls)).value)
  /\ EmptyArray(PathFieldValue(resolveVariable(FirstArg(cls)).value))

ResolvesToStrings(e) ==
  e.kind = "Identifier" /\ resolveVariable(e).type \in {"string", "array"}

BadElement(e) == e.kind # "StringLiteral" /\ ~ResolvesToStrings(e)

HasBadElement(e) ==
  /\ e.kind = "ArrayLiteralExpression"
  /\ \E i \in 1..Len(e.elements) : BadElement(e.elements[i])

C8_WitnessNoPath ==
  /\ pc = "returned"
  /\ Len(classes) = 1
  /\ FirstArgIs(classes[1], "ObjectLiteralExpression")
  /\ Len(FirstArg(classes[1]).properties) = 2
  /\ ~HasPathField(FirstArg(classes[1]))
  /\ result = <<[class |-> classes[1], path |-> <<>>]>>

(***************************************************************************)
(* C9: an object literal whose path field is present and holds a value     *)
(* that is not a string literal, an array literal or a reference resolving *)
(* to a string or string array (a number, a boolean, a call, a variable    *)
(* holding a number) makes the call fail with                              *)
(* InvalidControllerDecoratorError instead of giving an empty path.        *)
(***************************************************************************)
BadPathValue(e) ==
  /\ e.kind \notin {"StringLiteral", "ArrayLiteralExpression"}
  /\ ~ResolvesToStrings(e)

C9_BadPathFieldFails ==
  \A j \in 1..Len(classes) :
    (Called /\ HasPathValue(classes[j]) /\ BadPathValue(PathValue(classes[j])))
      => ThrowsInvalid /\ ~RecordFor(classes[j], <<>>)

(***************************************************************************)
(* C10: an identifier argument that refers, directly or through a chain of *)
(* import / re-export aliases, to a variable initialised with the string   *)
(* literal s gives the path <<s>>, as the literal s written inline does.   *)
(***************************************************************************)
RECURSIVE OriginalName(_)
OriginalName(n) ==
  IF n \notin DOMAIN SymbolTable THEN ""
  ELSE IF SymbolTable[n].flags = "Alias" THEN OriginalName(SymbolTable[n].target)
  ELSE n

AliasDepth(n) ==
  IF n \notin DOMAIN SymbolTable \/ SymbolTable[n].flags # "Alias" THEN 0
  ELSE IF SymbolTable[n].target \notin DOMAIN SymbolTable
            \/ SymbolTable[SymbolTable[n].target].flags # "Alias" THEN 1
  ELSE 2

RefersToStringLiteral(e) ==
  /\ e.kind = "Identifier"
  /\ OriginalName(e.text) # ""
  /\ LET d == SymbolTable[OriginalName(e.text)].declarations[1] IN
       /\ d.kind = "VariableDeclaration"
       /\ d.hasInitializer
       /\ d.initializer.kind = "StringLiteral"

ReferredText(e) ==
  SymbolTable[OriginalName(e.text)].declarations[1].initializer.text

C10_AliasTransparency ==
  \A j \in 1..Len(classes) :
    (HasFirstArg(classes[j]) /\ RefersToStringLiteral(FirstArg(classes[j])))
      => /\ Yields(j, <<ReferredText(FirstArg(classes[j]))>>)
         /\ Called =>
              getControllerPath(MarkerOf(classes[j])) =
                getControllerPath(
                  ControllerCall(<<StringLiteral(ReferredText(FirstArg(classes[j])))>>))

C10_Witness ==
  /\ pc = "returned"
  /\ Len(classes) = 1
  /\ HasFirstArg(classes[1])
  /\ RefersToStringLiteral(FirstArg(classes[1]))
  /\ AliasDepth(FirstArg(classes[1]).text) = 2
  /\ result = <<[class |-> classes[1], path |-> <<"api">>]>>

(***************************************************************************)
(* C11: an identifier first argument that resolves to nothing usable (a    *)
(* constant holding the number 123, a declaration without initializer, a   *)
(* declaration that is not a variable, no declaration at all) makes the    *)
(* call fail with InvalidControllerDecoratorError.                         *)
(***************************************************************************)
Unresolvable(e) == e.kind = "Identifier" /\ resolveVariable(e).type = "undefined"

UnusableExamples ==
  {Identifier("INVALID_PREFIX"), Identifier("DECLARED_ONLY"),
   Identifier("someFunction"), Identifier("undeclared")}

Contribution(e) ==
  IF e.kind = "StringLiteral" THEN <<e.text>>
  ELSE IF resolveVariable(e).type = "string" THEN <<resolveVariable(e).value>>
  ELSE resolveVariable(e).value

Concatenation(es) ==
  LET cat[i \in 0..Len(es)] ==
        IF i = 0 THEN <<>> ELSE cat[i - 1] \o Contribution(es[i])
  IN cat[Len(es)]

ContributingArray(e) ==
  /\ e.kind = "ArrayLiteralExpression"
  /\ Len(e.elements) > 0
  /\ \A i \in 1..Len(e.elements) : ~BadElement(e.elements[i])

C12_ArrayConcatenation ==
  \A j \in 1..Len(classes) :
    (HasFirstArg(classes[j]) /\ ContributingArray(FirstArg(classes[j])))
      => Yields(j, Concatenation(FirstArg(classes[j]).elements))

C12_Witness ==
  /\ pc = "returned"
  /\ Len(classes) = 1
  /\ HasFirstArg(classes[1])
  /\ FirstArg(classes[1]) =
       ArrayLiteralExpression(<<Identifier("PATHS"), Identifier("REEXPORTED_PREFIX")>>)
  /\ result = <<[class |-> classes[1], path |-> <<"users", "profiles", "api">>]>>

(***************************************************************************)
(* The strings an expression stands for, read off the declarations: the    *)
(* text of a string literal, the strings of the variable an identifier     *)
(* refers to through its aliases; an array declaration stands for the      *)
(* strings of its elements in order, those of the arrays its elements      *)
(* refer to included, to any depth.                                        *)
(***************************************************************************)
NotStrings == [ok |-> FALSE, strings |-> <<>>]
Strings(ss) == [ok |-> TRUE, strings |-> ss]

Declared(e) ==
  /\ e.kind = "Identifier"
  /\ OriginalName(e.text) # ""
  /\ SymbolTable[OriginalName(e.text)].declarations[1].kind = "VariableDeclaration"
  /\ SymbolTable[OriginalName(e.text)].declarations[1].hasInitializer

DeclaredInitializer(e) == SymbolTable[OriginalName(e.text)].declarations[1].initializer

RefersToArray(e) ==
  Declared(e) /\ DeclaredInitializer(e).kind = "ArrayLiteralExpression"

RECURSIVE Flattened(_)
FlattenedElements(es) ==
  LET parts[i \in 0..Len(es)] ==
        IF i = 0 THEN Strings(<<>>)
        ELSE IF ~parts[i - 1].ok \/ ~Flattened(es[i]).ok THEN NotStrings
        ELSE Strings(parts[i - 1].strings \o Flattened(es[i]).strings)
  IN parts[Len(es)]

Flattened(e) ==
  IF e.kind = "StringLiteral" THEN Strings(<<e.text>>)
  ELSE IF ~Declared(e) THEN NotStrings
  ELSE IF DeclaredInitializer(e).kind = "StringLiteral"
    THEN Strings(<<DeclaredInitializer(e).text>>)
  ELSE IF DeclaredInitializer(e).kind = "ArrayLiteralExpression"
    THEN FlattenedElements(DeclaredInitializer(e).elements)
  ELSE NotStrings

(* The strings the declared array's own elements give: the texts of its    *)
(* string literals and the strings of the elements referring to a string.  *)
OwnSegments(es) ==
  {es[i].text : i \in {k \in 1..Len(es) : es[k].kind = "StringLiteral"}}
    \cup {ReferredText(es[i]) : i \in {k \in 1..Len(es) : RefersToStringLiteral(es[k])}}

PathOf(cls) == (CHOOSE r \in {result[i] : i \in 1..Len(result)} : r.class = cls).path

(***************************************************************************)
(* C13 as stated: an identifier argument referring to an array declaration *)
(* gives that array's strings flattened one level only; every segment      *)
(* comes from the declared array's own elements, the strings of an array   *)
(* that an element refers to are not in the path.                          *)
(***************************************************************************)
C13_FlattenedOneLevelOnly ==
  \A j \in 1..Len(classes) :
    (/\ pc = "returned"
     /\ HasFirstArg(classes[j])
     /\ RefersToArray(FirstArg(classes[j])))
      => \A k \in 1..Len(PathOf(classes[j])) :
           PathOf(classes[j])[k] \in OwnSegments(DeclaredInitializer(FirstArg(classes[j])).elements)

(***************************************************************************)
(* C13 amended: an identifier argument referring to an array declaration   *)
(* whose elements are string literals or identifiers standing for strings  *)
(* gives the array's strings in order, an element referring to another     *)
(* array contributing all the strings of that array, to any depth.         *)
(***************************************************************************)
C13_FlattenedRecursively ==
  \A j \in 1..Len(classes) :
    (/\ HasFirstArg(classes[j])
     /\ RefersToArray(FirstArg(classes[j]))
     /\ Flattened(FirstArg(classes[j])).ok)
      => Yields(j, Flattened(FirstArg(classes[j])).strings)

C13_Witness ==
  /\ pc = "returned"
  /\ Len(classes) = 1
  /\ HasFirstArg(classes[1])
  /\ FirstArg(classes[1]) = Identifier("DEEP_PATHS")
  /\ result = <<[class |-> classes[1],
                 path |-> <<"root", "users", "profiles", "api", "leaf">>]>>

(***************************************************************************)
(* C14: an identifier first argument referring to an object literal        *)
(* declaration gives what that object literal gives when written inline as *)
(* the argument: the empty path when it has no path field, otherwise the   *)
(* normalisation of its path field's value (a path or the error).          *)
(***************************************************************************)
RefersToObject(e) ==
  Declared(e) /\ DeclaredInitializer(e).kind = "ObjectLiteralExpression"

InlineOutcome(e) == getControllerPath(ControllerCall(<<DeclaredInitializer(e)>>))

C14_DeclaredOptionsAsInline ==
  \A j \in 1..Len(classes) :
    (Called /\ HasFirstArg(classes[j]) /\ RefersToObject(FirstArg(classes[j])))
      => /\ InlineOutcome(FirstArg(classes[j])).kind = "throw" => ThrowsInvalid
         /\ InlineOutcome(FirstArg(classes[j])).kind = "return"
              => Yields(j, InlineOutcome(FirstArg(classes[j])).value)
         /\ ~HasPathField(DeclaredInitializer(FirstArg(classes[j])))
              => Yields(j, <<>>)
         /\ (/\ HasPathField(DeclaredInitializer(FirstArg(classes[j])))
             /\ PathFieldValue(DeclaredInitializer(FirstArg(classes[j]))).kind = "StringLiteral")
              => Yields(j, <<PathFieldValue(DeclaredInitializer(FirstArg(classes[j]))).text>>)

C14_Witness ==
  /\ pc = "returned"
  /\ Len(classes) = 1
  /\ HasFirstArg(classes[1])
  /\ FirstArg(classes[1]) = Identifier("ARRAY_PATH_CONFIG")
  /\ RefersToObject(FirstArg(classes[1]))
  /\ result = <<[class |-> classes[1], path |-> <<"v1", "v3">>]>>

(***************************************************************************)
(* C15: when no class fails the call returns, and the classes of the       *)
(* records are exactly the classes of the list that carry a qualifying     *)
(* marker, each once, in the order of the list.                            *)
(***************************************************************************)
RecordedClasses == [i \in 1..Len(result) |-> result[i].class]

C15_OrderPreserved ==
  /\ (Called /\ \A j \in 1..Len(classes) : ~NormalizationFails(classes[j]))
       => pc = "returned"
  /\ pc = "returned" => RecordedClasses = SelectSeq(classes, HasMarker)

C15_Witness ==
  /\ pc = "returned"
  /\ Len(classes) = 3
  /\ HasMarker(classes[1])
  /\ ~HasMarker(classes[2])
  /\ HasMarker(classes[3])
  /\ classes[1] # classes[3]
  /\ RecordedClasses = <<classes[1], classes[3]>>

(***************************************************************************)
(* C16: resolveToLiteral never raises: on every expression it returns a    *)
(* value, and the value is Unresolved (valueType undefined, value          *)
(* undefined) when the expression is of none of the shapes it lists.       *)
(***************************************************************************)
ListedShapes ==
  {"NumericLiteral", "BigIntLiteral", "StringLiteral", "NoSubstitutionTemplateLiteral",
   "RegularExpressionLiteral", "TrueKeyword", "FalseKeyword", "PrefixUnaryExpression",
   "ArrayLiteralExpression", "ParenthesizedExpression", "ComputedPropertyName",
   "ObjectLiteralExpression", "Identifier"}

C16_NeverRaises ==
  Called =>
    /\ pc = "returned"
    /\ expr.kind \notin ListedShapes
         => literal = [valueType |-> "undefined", value |-> [undefined |-> TRUE]]

(***************************************************************************)
(* C17: a primitive literal gives the tag of its kind with its value: a    *)
(* numeric literal in decimal, hexadecimal, octal or binary notation gives *)
(* NumericLiteral with the number written, one with the n suffix gives     *)
(* BigIntLiteral with the integer written before the suffix, a string      *)
(* literal or template without substitution gives StringLiteral with its   *)
(* text, true and false give TrueKeyword and FalseKeyword.                 *)
(***************************************************************************)
DigitWeight(c) ==
  CASE c = "0" -> 0 [] c = "1" -> 1 [] c = "2" -> 2 [] c = "3" -> 3 [] c = "7" -> 7
    [] c = "A" -> 10 [] c = "F" -> 15

Radix(notation) ==
  CASE notation = "decimal" -> 10 [] notation = "hexadecimal" -> 16
    [] notation = "octal" -> 8 [] notation = "binary" -> 2

(* The number a source literal writes: the sum of its digits' weights.     *)
WrittenNumber(source) ==
  LET sum[i \in 0..Len(source.digits)] ==
        IF i = 0 THEN 0
        ELSE sum[i - 1]
               + DigitWeight(source.digits[i])
                   * Radix(source.notation) ^ (Len(source.digits) - i)
  IN sum[Len(source.digits)]

C17_PrimitiveLiterals ==
  Called =>
    /\ \A s \in NumericSources :
         expr = scanNumber(s)
           => /\ pc = "returned"
              /\ literal =
                   IF s.bigint
                     THEN [valueType |-> "BigIntLiteral", value |-> [bigint |-> WrittenNumber(s)]]
                   ELSE [valueType |-> "NumericLiteral", value |-> [number |-> WrittenNumber(s)]]
    /\ expr.kind \in {"StringLiteral", "NoSubstitutionTemplateLiteral"}
         => /\ pc = "returned"
            /\ literal = [valueType |-> "StringLiteral", value |-> [string |-> expr.text]]
    /\ expr.kind = "TrueKeyword"
         => /\ pc = "returned"
            /\ literal = [valueType |-> "TrueKeyword", value |-> [boolean |-> TRUE]]
    /\ expr.kind = "FalseKeyword"
         => /\ pc = "returned"
            /\ literal = [valueType |-> "FalseKeyword", value |-> [boolean |-> FALSE]]

C17_Witness ==
  /\ pc = "returned"
  /\ expr = scanNumber(NumericSource("hexadecimal", <<"F", "F">>, TRUE))
  /\ expr.text = <<"0", "x", "F", "F", "n">>
  /\ literal = [valueType |-> "BigIntLiteral", value |-> [bigint |-> 255]]

(***************************************************************************)
(* C18: an array literal gives ArrayLiteralExpression with as many entries *)
(* as the array has elements, entry i being the value of element i; an     *)
(* element that evaluates to Unresolved stays in place as an Unresolved    *)
(* entry.                                                                  *)
(***************************************************************************)
UnresolvedValue == [valueType |-> "undefined", value |-> [undefined |-> TRUE]]

C18_ArrayEntries ==
  (Called /\ expr.kind = "ArrayLiteralExpression") =>
    /\ pc = "returned"
    /\ literal.valueType = "ArrayLiteralExpression"
    /\ Len(literal.value.array) = Len(expr.elements)
    /\ \A i \in 1..Len(expr.elements) :
         /\ literal.value.array[i] = resolveToLiteral(expr.elements[i])
         /\ expr.elements[i].kind = "CallExpression"
              => literal.value.array[i] = UnresolvedValue

(***************************************************************************)
(* C19: an object literal gives ObjectLiteralExpression with one entry k   *)
(* for each property assignment whose key (bare name, quoted string or     *)
(* computed name) evaluates to the string k, holding the value of that     *)
(* property; a property whose key does not evaluate to a string is         *)
(* skipped and adds no entry under any key.  The value of a property is    *)
(* accepted here with or without its tag.                                  *)
(***************************************************************************)
HasStringKey(prop) ==
  /\ prop.kind = "PropertyAssignment"
  /\ \/ prop.name.kind \in {"Identifier", "StringLiteral"}
     \/ /\ prop.name.kind = "ComputedPropertyName"
        /\ ~Throws(resolveToLiteral(prop.name.expression))
        /\ resolveToLiteral(prop.name.expression).valueType = "StringLiteral"

StringKey(prop) ==
  IF prop.name.kind \in {"Identifier", "StringLiteral"} THEN prop.name.text
  ELSE resolveToLiteral(prop.name.expression).value.string

StringKeys(ps) == {StringKey(ps[i]) : i \in {k \in 1..Len(ps) : HasStringKey(ps[k])}}

C19_ObjectEntries ==
  (pc = "returned" /\ expr.kind = "ObjectLiteralExpression") =>
    /\ literal.valueType = "ObjectLiteralExpression"
    /\ DOMAIN literal.value.object = StringKeys(expr.properties)
    /\ \A i \in 1..Len(expr.properties) :
         (/\ HasStringKey(expr.properties[i])
          /\ \A k \in (i + 1)..Len(expr.properties) :
               HasStringKey(expr.properties[k])
                 => StringKey(expr.properties[k]) # StringKey(expr.properties[i]))
           => literal.value.object[StringKey(expr.properties[i])]
                \in {resolveToLiteral(expr.properties[i].initializer),
                     resolveToLiteral(expr.properties[i].initializer).value}

(***************************************************************************)
(* C20: an identifier referring, directly or through aliases, to a         *)
(* declaration with an initializer evaluates to what the initializer       *)
(* evaluates to, same tag and same payload, whenever the initializer       *)
(* evaluates to a string, number, big integer, boolean, array or object.   *)
(***************************************************************************)
ResolvedTags ==
  {"StringLiteral", "NumericLiteral", "BigIntLiteral", "TrueKeyword", "FalseKeyword",
   "ArrayLiteralExpression", "ObjectLiteralExpression"}

InitializerResolves(e) ==
  /\ Declared(e)
  /\ ~Throws(resolveToLiteral(DeclaredInitializer(e)))
  /\ resolveToLiteral(DeclaredInitializer(e)).valueType \in ResolvedTags

C20_IdentifierAsInitializer ==
  (Called /\ InitializerResolves(expr))
    => /\ pc = "returned"
       /\ literal = resolveToLiteral(DeclaredInitializer(expr))

(***************************************************************************)
(* C21: a template literal with substitutions each of which evaluates to a *)
(* number or a string gives StringLiteral whose value is the fixed text of *)
(* the template with every substitution replaced, in order, by the text of *)
(* its value: `${1} + ${2} = ${3}` gives "1 + 2 = 3".                      *)
(***************************************************************************)
DigitText(d) ==
  CASE d = 0 -> "0" [] d = 1 -> "1" [] d = 2 -> "2" [] d = 3 -> "3" [] d = 4 -> "4"
    [] d = 5 -> "5" [] d = 6 -> "6" [] d = 7 -> "7" [] d = 8 -> "8" [] d = 9 -> "9"

(* The text a number or a string is written as in a template.              *)
NumberText(n) ==
  LET text[k \in 0..n] ==
        IF k < 10 THEN DigitText(k) ELSE text[k \div 10] \o DigitText(k % 10)
  IN text[n]

TextOf(value) ==
  IF "string" \in DOMAIN value THEN value.string ELSE NumberText(value.number)

SubstitutesText(span) ==
  /\ ~Throws(resolveToLiteral(span.expression))
  /\ resolveToLiteral(span.expression).valueType \in {"NumericLiteral", "StringLiteral"}
  /\ resolveToLiteral(span.expression).value # [nan |-> TRUE]

Interpolated(template) ==
  LET text[i \in 0..Len(template.templateSpans)] ==
        IF i = 0 THEN template.head
        ELSE text[i - 1]
               \o TextOf(resolveToLiteral(template.templateSpans[i].expression).value)
               \o template.templateSpans[i].literal
  IN text[Len(template.templateSpans)]

C21_TemplateSubstitution ==
  (/\ Called
   /\ expr.kind = "TemplateExpression"
   /\ \A i \in 1..Len(expr.templateSpans) : SubstitutesText(expr.templateSpans[i]))
    => /\ pc = "returned"
       /\ literal = [valueType |-> "StringLiteral", value |-> [string |-> Interpolated(expr)]]
       /\ Len(expr.templateSpans) = 3 => literal.value.string = "1 + 2 = 3"

(***************************************************************************)
(* C22: extractClasses returns exactly the class declarations that are     *)
(* direct children of a source file and have a name, file after file in    *)
(* the order of the files and in the order of their position in the file;  *)
(* a class expression assigned to a variable, a class without a name, a    *)
(* class nested in a namespace or a block, and every other statement are   *)
(* never returned.                                                         *)
(***************************************************************************)
Extracted == pc # "loaded"

TopLevelNodes ==
  LET nodes[i \in 0..Len(sourceFiles)] ==
        IF i = 0 THEN <<>> ELSE nodes[i - 1] \o sourceFiles[i].statements
  IN nodes[Len(sourceFiles)]

IsNamedClassDeclaration(node) ==
  node.kind = "ClassDeclaration" /\ "name" \in DOMAIN node

NestedNodes ==
  UNION {{node.body[k] : k \in 1..Len(node.body)} :
           node \in {n \in Statements : n.kind = "ModuleDeclaration"}}
    \cup UNION {{node.statements[k] : k \in 1..Len(node.statements)} :
                  node \in {n \in Statements : n.kind = "Block"}}

C22_TopLevelNamedClasses ==
  Extracted =>
    /\ classes = SelectSeq(TopLevelNodes, IsNamedClassDeclaration)
    /\ \A i \in 1..Len(classes) :
         /\ IsNamedClassDeclaration(classes[i])
         /\ classes[i] \notin NestedNodes

C22_Witness ==
  /\ pc = "ready"
  /\ Len(sourceFiles) = 2
  /\ sourceFiles[1].statements =
       <<VariableStatement(ClassExpression), ClassDeclaration("NamedClass", <<>>)>>
  /\ Len(sourceFiles[2].statements) = 3
  /\ Len(classes) = 3
  /\ classes[1] = ClassDeclaration("NamedClass", <<>>)
  /\ classes[2].name = "UserController"
  /\ classes[3].name = "CreateUserDto"

(***************************************************************************)
(* C23: resolution terminates on every snapshot, declarations that refer   *)
(* to each other in a circle included: a declaration reached again during  *)
(* one resolution is not entered again, so that the frames of              *)
(* resolveVariable on the stack are never more than the declarations of    *)
(* the snapshot, and the call ends by returning, not by exhausting the     *)
(* stack.                                                                  *)
(***************************************************************************)
Entered == {i \in 1..Len(stack) : stack[i].node.text \in DOMAIN snapshot}

C23_NoDeclarationEnteredAgain ==
  /\ \A i, k \in Entered : stack[i].node.text = stack[k].node.text => i = k
  /\ Cardinality(Entered) <= Cardinality(DOMAIN snapshot)
  /\ error # "RangeError"

(***************************************************************************)
(* C24: every element of the path of every record returned is a string     *)
(* that is not empty: neither the empty string literal, nor a constant     *)
(* holding it, nor an array containing it gives a record with an empty     *)
(* segment.                                                                *)
(***************************************************************************)
C24_NoEmptySegment ==
  pc = "returned" =>
    \A i \in 1..Len(result) :
      \A k \in 1..Len(result[i].path) : result[i].path[k] # ""

(***************************************************************************)
(* C25: a class carrying a qualifying marker has one of two outcomes: it   *)
(* is in the result, once, with a path that is a list of strings, or the   *)
(* call fails with InvalidControllerDecoratorError.  It is never left out  *)
(* of a returned result, whatever its argument resolves to.                *)
(***************************************************************************)
RecordsOf(cls) == {i \in 1..Len(result) : result[i].class = cls}

Occurrences(cls) == Cardinality({j \in 1..Len(classes) : classes[j] = cls})

OutcomeOfMarker(cls) == getControllerPath(MarkerOf(cls))

Malformed(d) == IsControllerCall(d) /\ getControllerPath(d).kind = "throw"

C26_FirstMarkerWins ==
  \A j \in 1..Len(classes) :
    (Called /\ HasMarker(classes[j]))
      => /\ OutcomeOfMarker(classes[j]).kind = "throw" => ThrowsInvalid
         /\ (pc = "returned" /\ Len(classes) = 1)
              => result = <<[class |-> classes[1], path |-> OutcomeOfMarker(classes[1]).value]>>
         /\ (/\ Len(classes) = 1
             /\ Len(classes[1].decorators) >= 2
             /\ classes[1].decorators[1] = ControllerCall(<<StringLiteral("api")>>))
              => /\ pc = "returned"
                 /\ result = <<[class |-> classes[1], path |-> <<"api">>]>>

C26_Witness ==
  /\ pc = "returned"
  /\ Len(classes) = 1
  /\ Len(classes[1].decorators) = 2
  /\ classes[1].decorators[1] = ControllerCall(<<StringLiteral("api")>>)
  /\ Malformed(classes[1].decorators[2])
  /\ result = <<[class |-> classes[1], path |-> <<"api">>]>>

C26_WitnessSkipped ==
  /\ pc = "returned"
  /\ Len(classes) = 1
  /\ classes[1].decorators = <<Decorator(Identifier("Controller")), ControllerCall(<<>>)>>
  /\ result = <<[class |-> classes[1], path |-> <<>>]>>

(***************************************************************************)
(* The class at position 1, alone in the list, has a configuration object  *)
(* as argument whose path field is written path: e; AsArgument(e) is what  *)
(* the same e gives as the argument itself.                                *)
(***************************************************************************)
HasWrittenPathValue(cls) ==
  /\ HasPathValue(cls)
  /\ PathField(FirstArg(cls)).kind = "PropertyAssignment"
  /\ PathValue(cls).kind # "ObjectLiteralExpression"

AsArgument(e) == getControllerPath(ControllerCall(<<e>>))

SameOutcome(outcome) ==
  /\ outcome.kind = "throw" => ThrowsInvalid
  /\ outcome.kind = "return"
       => /\ pc = "returned"
          /\ result = <<[class |-> classes[1], path |-> outcome.value]>>

(***************************************************************************)
(* C27 as stated: for every expression e that is not an object literal,    *)
(* @Controller({ path: e }) and @Controller(e) give the same path or both  *)
(* fail, also when e is an identifier resolving to an array of strings or  *)
(* to a configuration object.                                              *)
(***************************************************************************)
C27_PathFieldAsArgument ==
  (Called /\ Len(classes) = 1 /\ HasWrittenPathValue(classes[1]))
    => SameOutcome(AsArgument(PathValue(classes[1])))

(***************************************************************************)
(* C27 amended: for every expression e that is neither an object literal   *)
(* nor an identifier referring to an object literal, @Controller({ path:   *)
(* e }) and @Controller(e) give the same path or both fail; for an         *)
(* identifier referring to an object literal, @Controller({ path: e })     *)
(* fails with InvalidControllerDecoratorError.                             *)
(***************************************************************************)
C27_PathFieldAsArgumentUnlessObject ==
  (Called /\ Len(classes) = 1 /\ HasWrittenPathValue(classes[1]))
    => IF RefersToObject(PathValue(classes[1])) THEN ThrowsInvalid
       ELSE SameOutcome(AsArgument(PathValue(classes[1])))

C27_Witness ==
  /\ pc = "returned"
  /\ Len(classes) = 1
  /\ HasWrittenPathValue(classes[1])
  /\ PathValue(classes[1]) = Identifier("NESTED_PATHS")
  /\ result = <<[class |-> classes[1], path |-> <<"root", "users", "profiles", "api">>]>>

C27_WitnessObject ==
  /\ ThrowsInvalid
  /\ Len(classes) = 1
  /\ HasWrittenPathValue(classes[1])
  /\ PathValue(classes[1]) = Identifier("CONTROLLER_CONFIG")
  /\ AsArgument(PathValue(classes[1])) = Return(<<"config-path">>)

(***************************************************************************)
(* C28: the path normalizer agrees with the literal evaluator on the first *)
(* argument.  When resolveToLiteral of the argument is a string s the path *)
(* is <<s>>; when it is a non-empty array whose entries are all strings    *)
(* the path is those strings in order, whichever syntax wrote the value;   *)
(* and when a string literal, array or identifier argument gives a path,   *)
(* resolveToLiteral of the argument is a string or an array of strings     *)
(* with the same strings.                                                  *)
(***************************************************************************)
IsStringResult(v) == ~Throws(v) /\ v.valueType = "StringLiteral"

IsStringsResult(v) ==
  /\ ~Throws(v)
  /\ v.valueType = "ArrayLiteralExpression"
  /\ Len(v.value.array) > 0
  /\ \A i \in 1..Len(v.value.array) : IsStringResult(v.value.array[i])

StringsOf(v) ==
  IF v.valueType = "StringLiteral" THEN <<v.value.string>>
  ELSE [i \in 1..Len(v.value.array) |-> v.value.array[i].value.string]

C28_NormalizerAgreesWithEvaluator ==
  (Called /\ Len(classes) = 1 /\ HasFirstArg(classes[1]))
    => /\ (\/ IsStringResult(resolveToLiteral(FirstArg(classes[1])))
           \/ IsStringsResult(resolveToLiteral(FirstArg(classes[1]))))
            => /\ pc = "returned"
               /\ result = <<[class |-> classes[1],
                              path |-> StringsOf(resolveToLiteral(FirstArg(classes[1])))]>>
       /\ (/\ pc = "returned"
           /\ FirstArg(classes[1]).kind
                \in {"StringLiteral", "ArrayLiteralExpression", "Identifier"})
            => /\ \/ IsStringResult(resolveToLiteral(FirstArg(classes[1])))
                  \/ IsStringsResult(resolveToLiteral(FirstArg(classes[1])))
               /\ result[1].path = StringsOf(resolveToLiteral(FirstArg(classes[1])))

(***************************************************************************)
(* C29: every value resolveToLiteral returns is a tagged value at every    *)
(* depth: its tag tells the shape of its payload, every entry of an array  *)
(* payload and every value of an object payload is itself a tagged value,  *)
(* never a bare number, string or undefined, and Unresolved has no         *)
(* payload.                                                                *)
(***************************************************************************)
PayloadOf(tag) ==
  CASE tag = "NumericLiteral" -> {"number", "nan"}
    [] tag = "BigIntLiteral" -> {"bigint"}
    [] tag = "StringLiteral" -> {"string"}
    [] tag = "RegularExpressionLiteral" -> {"regexp"}
    [] tag \in {"TrueKeyword", "FalseKeyword"} -> {"boolean"}
    [] tag = "ArrayLiteralExpression" -> {"array"}
    [] tag = "ObjectLiteralExpression" -> {"object"}
    [] tag = "undefined" -> {"undefined"}

RECURSIVE WellFormed(_)
WellFormed(v) ==
  IF DOMAIN v # {"valueType", "value"} THEN FALSE
  ELSE IF DOMAIN v.value \cap PayloadOf(v.valueType) = {} THEN FALSE
  ELSE IF v.valueType = "TrueKeyword" THEN v.value.boolean
  ELSE IF v.valueType = "FalseKeyword" THEN ~v.value.boolean
  ELSE IF v.valueType = "ArrayLiteralExpression"
    THEN \A i \in 1..Len(v.value.array) : WellFormed(v.value.array[i])
  ELSE IF v.valueType = "ObjectLiteralExpression"
    THEN \A k \in DOMAIN v.value.object : WellFormed(v.value.object[k])
  ELSE TRUE

C29_TaggedAtEveryDepth == pc = "returned" => WellFormed(literal)

(***************************************************************************)
(* C30: an identifier evaluates to StringLiteral with its own text exactly *)
(* when the snapshot has no declaration for it; when it has one, the value *)
(* is what the initializer of the declaration evaluates to, and Unresolved *)
(* when there is no initializer or the initializer does not evaluate.      *)
(***************************************************************************)
OwnText(e) == [valueType |-> "StringLiteral", value |-> [string |-> e.text]]

HasDeclaration(e) == e.text \in DOMAIN SymbolTable

InitializerValue(e) ==
  IF ~Declared(e) THEN UnresolvedValue
  ELSE IF Throws(resolveToLiteral(DeclaredInitializer(e))) THEN UnresolvedValue
  ELSE resolveToLiteral(DeclaredInitializer(e))

C30_BareWordOnlyWhenUndeclared ==
  (Called /\ expr.kind = "Identifier")
    => /\ pc = "returned"
       /\ literal = OwnText(expr) <=> ~HasDeclaration(expr)
       /\ HasDeclaration(expr) => literal = InitializerValue(expr)

====
